---- MODULE Spec2Model ----
(***************************************************************************)
(* Life Atlas (js/app.js): the LifeAtlas class as a state machine.  The    *)
(* state is the instance's fields, the localStorage key, the Leaflet map's *)
(* marker layers, the two modals and the file reads in flight, plus what the *)
(* last handler showed the user.                                          *)
(* Every UI event handler is one action; a handler that throws keeps the   *)
(* assignments it made before the throw.                                   *)
(***************************************************************************)
EXTENDS Integers, Sequences, FiniteSets

VARIABLES memories, pins, layers, storage, currentPin, addingMemory,
          currentMemoryId, editingMemory, memoryModal, detailModal,
          reading, download, now, failures, view, timers, editTarget, out

vars == <<memories, pins, layers, storage, currentPin, addingMemory,
          currentMemoryId, editingMemory, memoryModal, detailModal,
          reading, download, now, failures, view, timers, editTarget, out>>

(* -------- bounds of the model -------- *)
\* Date.now() readings range over 1..MaxTime
MaxTime == 2
\* the creation form is not offered once the collection holds MaxMem records
MaxMem == 2
\* file reads (FileReader.readAsText) in flight at once
MaxReads == 1
\* localStorage.setItem calls that throw in one session
MaxFailures == 1
\* popup callbacks of randomMemory (setTimeout) pending at once
MaxTimers == 1

(* -------- values -------- *)
Times == 1 .. MaxTime
\* JS null for currentMemoryId; ids are Date.now() readings, never 0
NullId == 0
\* JS null for currentPin; a pin is <<lat, lng>>
NullPin == << >>
LatLngs == { <<40, -74>>, <<41, -73>> }
\* new Date().toISOString() of the instant t
ISO(t) == <<"ISO", t>>
\* <input type="date"> values are fixed-width strings, compared as strings
EmptyStr == << >>
Date2023 == <<2, 0, 2, 3>>
Date2024 == <<2, 0, 2, 4>>
Date2025 == <<2, 0, 2, 5>>
DefaultMood == "pin"
NoMood == ""
Moods == {"happy", "dreamy"}

\* a value of the memories array: a memory record, a record that lacks its
\* description, or null (the last two only come out of JSON.parse)
Item(k, i, t, d, desc, m, ll, c) ==
  [kind |-> k, id |-> i, title |-> t, date |-> d, description |-> desc,
   mood |-> m, lat |-> ll[1], lng |-> ll[2], createdAt |-> c]
NullItem == Item("null", NullId, EmptyStr, EmptyStr, EmptyStr, NoMood, <<0, 0>>, ISO(0))

(* -------- strings -------- *)
IsSpace(c) == c = " "

RECURSIVE TrimStart(_)
TrimStart(s) == IF s # << >> /\ IsSpace(Head(s)) THEN TrimStart(Tail(s)) ELSE s

RECURSIVE TrimEnd(_)
TrimEnd(s) ==
  IF s # << >> /\ IsSpace(s[Len(s)]) THEN TrimEnd(SubSeq(s, 1, Len(s) - 1)) ELSE s

\* String.prototype.trim
Trim(s) == TrimEnd(TrimStart(s))

\* the < of two strings: code unit by code unit, a proper prefix is smaller
RECURSIVE StrLess(_, _)
StrLess(a, b) ==
  IF b = << >> THEN FALSE
  ELSE IF a = << >> THEN TRUE
  ELSE IF Head(a) # Head(b) THEN Head(a) < Head(b)
  ELSE StrLess(Tail(a), Tail(b))

(* -------- JSON and localStorage -------- *)
\* localStorage.getItem of a key that was never set
Absent == [kind |-> "absent", indent |-> 0, type |-> "none", items |-> << >>]
\* a file that is not JSON
Garbage == [kind |-> "garbage", indent |-> 0, type |-> "none", items |-> << >>]
\* a file holding a JSON object, not an array
ObjectText == [kind |-> "json", indent |-> 0, type |-> "object", items |-> << >>]

\* JSON.stringify(array, null, indent): the text of an array
Stringify(arr, ind) == [kind |-> "json", indent |-> ind, type |-> "array", items |-> arr]
\* JSON.parse throws a SyntaxError on this text
ParseThrows(text) == text.kind = "garbage"
\* JSON.parse(text) when it returns: the value, whatever the text's layout
Parse(text) == [type |-> IF text.kind = "absent" THEN "null" ELSE text.type,
                items |-> text.items]
IsArray(v) == v.type = "array"

(* -------- the memories array -------- *)
Ids(mems) == { mems[i].id : i \in { j \in 1 .. Len(mems) : mems[j].kind # "null" } }

\* the index of the first element e with e.id === id, 0 when there is none
Matches(mems, id) == { i \in 1 .. Len(mems) : mems[i].kind # "null" /\ mems[i].id = id }
Nulls(mems) == { i \in 1 .. Len(mems) : mems[i].kind = "null" }
Min(S) == CHOOSE x \in S : \A y \in S : x <= y
FindIndex(mems, id) == IF Matches(mems, id) = {} THEN 0 ELSE Min(Matches(mems, id))
\* the callback m => m.id === id dereferences a null element it reaches
FindThrows(mems, id) ==
  IF Nulls(mems) = {} THEN FALSE
  ELSE IF Matches(mems, id) = {} THEN TRUE
  ELSE Min(Nulls(mems)) < Min(Matches(mems, id))

\* Array.prototype.splice(index, 1)
Splice(mems, index) == SubSeq(mems, 1, index - 1) \o SubSeq(mems, index + 1, Len(mems))

(* -------- markers and the pins Map -------- *)
\* a Leaflet marker: the id it was made for, a number telling apart the
\* markers made for one id, and whether a popup was bound to it
Marker(id, n, popup) == <<id, n, popup>>
PinKeys(ps) == { ps[i].id : i \in 1 .. Len(ps) }
PinMarkers(ps) == { ps[i].marker : i \in 1 .. Len(ps) }
PinsHas(ps, id) == id \in PinKeys(ps)
PinsGet(ps, id) == ps[CHOOSE i \in 1 .. Len(ps) : ps[i].id = id].marker
\* Map.prototype.set: a new key goes last, an old key keeps its place
PinsSet(ps, id, m) ==
  IF PinsHas(ps, id)
  THEN [i \in 1 .. Len(ps) |-> IF ps[i].id = id THEN [id |-> id, marker |-> m] ELSE ps[i]]
  ELSE Append(ps, [id |-> id, marker |-> m])
KeepsOther(p, id) == p.id # id
PinsDelete(ps, id) == SelectSeq(ps, LAMBDA p : KeepsOther(p, id))

\* L.marker(...) makes an object no other marker is: its number is the first
\* one no marker that is still referenced (by pins or by the map) carries
UsedNumbers(id, ps, ls) == { m[2] : m \in { x \in ls \cup PinMarkers(ps) : x[1] = id } }
NewMarker(id, ps, ls, popup) ==
  Marker(id,
         Min({ n \in 1 .. Cardinality(UsedNumbers(id, ps, ls)) + 1 :
                 n \notin UsedNumbers(id, ps, ls) }),
         popup)

\* addPinToMap(memory) on the pins Map ps and the map's layers ls.  null
\* throws at memory.mood; a record without description gets its marker added
\* to the map and then throws in createPopupContent, before pins.set
AddPinToMap(memory, ps, ls) ==
  IF memory.kind = "null" THEN [pins |-> ps, layers |-> ls, threw |-> TRUE]
  ELSE IF memory.kind = "nodesc"
  THEN [pins |-> ps,
        layers |-> ls \cup {NewMarker(memory.id, ps, ls, FALSE)},
        threw |-> TRUE]
  ELSE [pins |-> PinsSet(ps, memory.id, NewMarker(memory.id, ps, ls, TRUE)),
        layers |-> ls \cup {NewMarker(memory.id, ps, ls, TRUE)},
        threw |-> FALSE]

\* loadMemories(): addPinToMap for each element in order, up to the first throw
RECURSIVE LoadMemories(_, _, _)
LoadMemories(mems, ps, ls) ==
  IF mems = << >> THEN [pins |-> ps, layers |-> ls, threw |-> FALSE]
  ELSE LET r == AddPinToMap(Head(mems), ps, ls)
       IN  IF r.threw THEN r ELSE LoadMemories(Tail(mems), r.pins, r.layers)

(* -------- what the user sees -------- *)
\* a call of showToast; n is the count the message embeds, if any.  showToast
\* removes the toast before it, so a handler's last call is the one displayed
Toast(msg, n) == [msg |-> msg, n |-> n]
NoToast == Toast("none", 0)
\* what the last handler did: its name, how it ended, its storage write, the
\* last toast it showed and the id of the memory it worked on
OutOn(op, result, wrote, shown, id) ==
  [op |-> op, result |-> result, wrote |-> wrote, toast |-> shown, subject |-> id]
Out(op, result, wrote, shown) == OutOn(op, result, wrote, shown, NullId)
Wrote(ok) == IF ok THEN "ok" ELSE "failed"

\* saveToStorage(): setItem either stores the text or throws (quota), and the
\* catch shows the error toast
SaveToStorage(mems, ok) == IF ok THEN Stringify(mems, 0) ELSE storage
\* the outcome ok of a setItem call, and the count of the calls that threw
SetItem(ok) ==
  /\ ok \/ failures < MaxFailures
  /\ failures' = IF ok THEN failures ELSE failures + 1

(* -------- the form -------- *)
Form(t, d, desc, m) == [title |-> t, date |-> d, description |-> desc, mood |-> m]
Forms ==
  { Form(<<"a">>, Date2023, <<"x">>, "happy"),
    Form(<<" ", "b">>, Date2024, <<"y", " ">>, NoMood),
    Form(<< >>, Date2023, <<"x">>, "happy"),
    Form(<<" ">>, Date2024, <<"x">>, "dreamy"),
    Form(<<"a">>, EmptyStr, <<"x">>, "happy"),
    Form(<<"a">>, Date2023, <<" ", " ">>, NoMood) }
\* the selected mood option's data-mood, or the default
FormMood(form) == IF form.mood = NoMood THEN DefaultMood ELSE form.mood
\* a validation of the fields as typed, without trim()
InvalidUntrimmed(form) ==
  form.title = EmptyStr \/ form.date = EmptyStr \/ form.description = EmptyStr

\* the validation of saveMemory: !title || !date || !description
Invalid(form) ==
  Trim(form.title) = EmptyStr \/ form.date = EmptyStr \/ Trim(form.description) = EmptyStr

(* -------- construction -------- *)
\* initMap: this.map.setView([40.7128, -74.0060], 10); a view is the centre
\* and the zoom
HomeView == <<40, -74, 10>>

\* new LifeAtlas() on a browser profile that never ran the application
Init ==
  /\ storage = Absent
  /\ memories = << >>
  /\ pins = << >>
  /\ layers = {}
  /\ currentPin = NullPin
  /\ addingMemory = FALSE
  /\ currentMemoryId = NullId
  /\ editingMemory = FALSE
  /\ memoryModal = FALSE
  /\ detailModal = FALSE
  /\ reading = 0
  /\ download = Garbage
  /\ now = 0
  /\ failures = 0
  /\ view = HomeView
  /\ timers = << >>
  /\ editTarget = NullId
  /\ out = Out("constructor", "ok", "no", NoToast)

\* JSON.parse(localStorage.getItem('lifeAtlasMemories')) || []
StoredMemories == IF Parse(storage).type = "null" THEN << >> ELSE Parse(storage).items

\* the page reloaded: new LifeAtlas() over the storage the session left, on a
\* new map; init() runs loadMemories, and a throw of it ends the constructor
Reload ==
  LET r == LoadMemories(StoredMemories, << >>, {})
  IN  /\ memories' = StoredMemories
      /\ pins' = r.pins
      /\ layers' = r.layers
      /\ currentPin' = NullPin
      /\ addingMemory' = FALSE
      /\ currentMemoryId' = NullId
      /\ editingMemory' = FALSE
      /\ memoryModal' = FALSE
      /\ detailModal' = FALSE
      /\ reading' = 0
      /\ view' = HomeView
      /\ timers' = << >>
      /\ editTarget' = NullId
      /\ out' = Out("constructor", IF r.threw THEN "threw" ELSE "ok", "no", NoToast)
      /\ UNCHANGED <<storage, download, now, failures>>

(* -------- adding mode and the map click -------- *)
\* addMemoryMode(): the floating button
AddMemoryMode ==
  /\ addingMemory' = ~addingMemory
  /\ out' = Out("addMemoryMode", "ok", "no",
              IF ~addingMemory THEN Toast("clickToPlace", 0) ELSE NoToast)
  /\ UNCHANGED <<memories, pins, layers, storage, currentPin, currentMemoryId,
                 editingMemory, memoryModal, detailModal, reading, download, now, failures>>
  /\ UNCHANGED <<view, timers, editTarget>>

\* the map's click handler, which calls createMemoryAt(e.latlng) in adding mode
MapClick(latlng) ==
  /\ addingMemory
  /\ currentPin' = latlng
  /\ memoryModal' = TRUE
  /\ addingMemory' = FALSE
  /\ out' = Out("createMemoryAt", "ok", "no", NoToast)
  /\ UNCHANGED <<memories, pins, layers, storage, currentMemoryId, editingMemory,
                 detailModal, reading, download, now, failures>>
  /\ UNCHANGED <<view, timers, editTarget>>

\* closeModal(): its assignments
ModalClosed ==
  /\ memoryModal' = FALSE
  /\ currentPin' = NullPin
  /\ editingMemory' = FALSE
  /\ currentMemoryId' = NullId
  /\ editTarget' = NullId

\* the close button of the form modal, or a click outside it
CloseModal ==
  /\ memoryModal
  /\ ModalClosed
  /\ out' = Out("closeModal", "ok", "no", NoToast)
  /\ UNCHANGED <<memories, pins, layers, storage, addingMemory, detailModal,
                 reading, download, now, failures>>
  /\ UNCHANGED <<view, timers>>

(* -------- saveMemory -------- *)
\* the validation fails: alert and return
SaveInvalid(form) ==
  /\ Invalid(form)
  /\ out' = Out("saveMemory", "invalid", "no", NoToast)
  /\ UNCHANGED <<memories, pins, layers, storage, currentPin, addingMemory,
                 currentMemoryId, editingMemory, memoryModal, detailModal,
                 reading, download, now, failures>>
  /\ UNCHANGED <<view, timers, editTarget>>

\* building the record throws a TypeError: this.currentPin is null, or (edit
\* mode) find() returns undefined or its callback reaches a null element
SaveBuildThrows ==
  IF currentPin = NullPin THEN TRUE
  ELSE IF ~editingMemory THEN FALSE
  ELSE IF FindThrows(memories, currentMemoryId) THEN TRUE
  ELSE FindIndex(memories, currentMemoryId) = 0

SaveThrows(form) ==
  /\ ~Invalid(form)
  /\ SaveBuildThrows
  /\ out' = Out("saveMemory", "threw", "no", NoToast)
  /\ UNCHANGED <<memories, pins, layers, storage, currentPin, addingMemory,
                 currentMemoryId, editingMemory, memoryModal, detailModal,
                 reading, download, now, failures>>
  /\ UNCHANGED <<view, timers, editTarget>>

\* a record built from the fields as typed, without trim()
NewMemoryUntrimmed(form, id, createdAt) ==
  Item("memory", id, form.title, form.date, form.description,
       FormMood(form), currentPin, createdAt)

\* the record saveMemory builds from the form
NewMemory(form, id, createdAt) ==
  Item("memory", id, Trim(form.title), form.date, Trim(form.description),
       FormMood(form), currentPin, createdAt)

\* an edited record stamped with the latest clock reading
EditedMemoryRestamped(form) == NewMemory(form, currentMemoryId, ISO(now))

\* edit mode, record found: replace it in place, remove its marker, save, add
\* the new marker, close the modal
EditedMemory(form) ==
  NewMemory(form, currentMemoryId,
            memories[FindIndex(memories, currentMemoryId)].createdAt)

SaveEdit(form, ok) ==
  /\ ~Invalid(form)
  /\ ~SaveBuildThrows
  /\ editingMemory
  /\ LET index == FindIndex(memories, currentMemoryId)
         mems == [memories EXCEPT ![index] = EditedMemory(form)]
     IN  /\ memories' = mems
         /\ IF PinsHas(pins, currentMemoryId)
            THEN LET ls == layers \ {PinsGet(pins, currentMemoryId)}
                     r == AddPinToMap(EditedMemory(form), pins, ls)
                 IN  /\ storage' = SaveToStorage(mems, ok)
                     /\ SetItem(ok)
                     /\ pins' = r.pins
                     /\ layers' = r.layers
                     /\ ModalClosed
                     /\ out' = OutOn("saveMemory", "ok", Wrote(ok), Toast("saved", 0),
                                   currentMemoryId)
            ELSE \* this.pins.get(id) is undefined: .remove() throws
                 /\ out' = Out("saveMemory", "threw", "no", NoToast)
                 /\ UNCHANGED <<storage, pins, layers, memoryModal, currentPin,
                                editingMemory, currentMemoryId, failures,
                                editTarget>>
  /\ UNCHANGED <<addingMemory, detailModal, reading, download, now>>
  /\ UNCHANGED <<view, timers>>

\* a creation that a failed storage write undoes
SaveCreateUndoneByFailure(form, ok, t) ==
  /\ ~Invalid(form)
  /\ ~SaveBuildThrows
  /\ ~editingMemory
  /\ Len(memories) < MaxMem
  /\ t \in now + 1 .. MaxTime
  /\ LET memory == NewMemory(form, t, ISO(t))
         r == AddPinToMap(memory, pins, layers)
     IN  /\ memories' = IF ok THEN Append(memories, memory) ELSE memories
         /\ storage' = SaveToStorage(Append(memories, memory), ok)
         /\ SetItem(ok)
         /\ pins' = IF ok THEN r.pins ELSE pins
         /\ layers' = IF ok THEN r.layers ELSE layers
  /\ ModalClosed
  /\ now' = t
  /\ out' = OutOn("saveMemory", "ok", Wrote(ok), Toast("saved", 0), t)
  /\ UNCHANGED <<addingMemory, detailModal, reading, download>>
  /\ UNCHANGED <<view, timers>>

\* creation: push the record made at the instant t
SaveCreate(form, ok, t) ==
  /\ ~Invalid(form)
  /\ ~SaveBuildThrows
  /\ ~editingMemory
  /\ Len(memories) < MaxMem
  /\ t \in now + 1 .. MaxTime
  /\ LET memory == NewMemory(form, t, ISO(t))
         mems == Append(memories, memory)
         r == AddPinToMap(memory, pins, layers)
     IN  /\ memories' = mems
         /\ storage' = SaveToStorage(mems, ok)
         /\ SetItem(ok)
         /\ pins' = r.pins
         /\ layers' = r.layers
  /\ ModalClosed
  /\ now' = t
  /\ out' = OutOn("saveMemory", "ok", Wrote(ok), Toast("saved", 0), t)
  /\ UNCHANGED <<addingMemory, detailModal, reading, download>>
  /\ UNCHANGED <<view, timers>>

\* the form's submit handler
SaveMemory(form, ok, t) ==
  /\ memoryModal
  /\ \/ SaveInvalid(form)
     \/ SaveThrows(form)
     \/ SaveEdit(form, ok)
     \/ SaveCreate(form, ok, t)

(* -------- the detail view -------- *)
\* the ids whose "Open Memory" button the map offers: a marker on the map
\* with a popup bound to it
Openable == { m[1] : m \in { x \in layers : x[3] } }

\* showMemoryDetail(memoryId), from a popup's button
ShowMemoryDetail(id) ==
  /\ id \in Openable
  /\ IF FindThrows(memories, id)
     THEN /\ out' = Out("showMemoryDetail", "threw", "no", NoToast)
          /\ UNCHANGED <<detailModal, currentMemoryId>>
     ELSE IF FindIndex(memories, id) = 0
     THEN /\ out' = Out("showMemoryDetail", "notFound", "no", NoToast)
          /\ UNCHANGED <<detailModal, currentMemoryId>>
     ELSE /\ detailModal' = TRUE
          /\ currentMemoryId' = id
          /\ out' = OutOn("showMemoryDetail", "ok", "no", NoToast, id)
  /\ UNCHANGED <<memories, pins, layers, storage, currentPin, addingMemory,
                 editingMemory, memoryModal, reading, download, now, failures>>
  /\ UNCHANGED <<view, timers, editTarget>>

\* closeDetailModal(): the close button of the detail modal, or a click outside
CloseDetailModal ==
  /\ detailModal
  /\ detailModal' = FALSE
  /\ currentMemoryId' = NullId
  /\ out' = Out("closeDetailModal", "ok", "no", NoToast)
  /\ UNCHANGED <<memories, pins, layers, storage, currentPin, addingMemory,
                 editingMemory, memoryModal, reading, download, now, failures>>
  /\ UNCHANGED <<view, timers, editTarget>>

\* editMemory(): the detail modal's edit button
EditMemory ==
  /\ detailModal
  /\ IF FindThrows(memories, currentMemoryId)
     THEN /\ out' = Out("editMemory", "threw", "no", NoToast)
          /\ UNCHANGED <<currentPin, editingMemory, detailModal, currentMemoryId,
                         memoryModal, editTarget>>
     ELSE IF FindIndex(memories, currentMemoryId) = 0
     THEN /\ out' = Out("editMemory", "notFound", "no", NoToast)
          /\ UNCHANGED <<currentPin, editingMemory, detailModal, currentMemoryId,
                         memoryModal, editTarget>>
     ELSE LET memory == memories[FindIndex(memories, currentMemoryId)]
          IN  /\ currentPin' = <<memory.lat, memory.lng>>
              /\ editingMemory' = TRUE
              /\ editTarget' = memory.id
              \* closeDetailModal()
              /\ detailModal' = FALSE
              /\ currentMemoryId' = NullId
              \* showModal()
              /\ memoryModal' = TRUE
              /\ out' = OutOn("editMemory", "ok", "no", NoToast, memory.id)
  /\ UNCHANGED <<memories, pins, layers, storage, addingMemory, reading,
                 download, now, failures>>
  /\ UNCHANGED <<view, timers>>

\* deleteMemory(): the detail modal's delete button; confirmed is the answer
\* to confirm()
DeleteMemory(confirmed, ok) ==
  /\ detailModal
  /\ IF ~confirmed
     THEN /\ out' = Out("deleteMemory", "declined", "no", NoToast)
          /\ UNCHANGED <<memories, pins, layers, storage, detailModal,
                         currentMemoryId, failures>>
     ELSE IF FindThrows(memories, currentMemoryId)
     THEN /\ out' = Out("deleteMemory", "threw", "no", NoToast)
          /\ UNCHANGED <<memories, pins, layers, storage, detailModal,
                         currentMemoryId, failures>>
     ELSE IF FindIndex(memories, currentMemoryId) = 0
     THEN /\ out' = Out("deleteMemory", "notFound", "no", NoToast)
          /\ UNCHANGED <<memories, pins, layers, storage, detailModal,
                         currentMemoryId, failures>>
     ELSE IF ~PinsHas(pins, currentMemoryId)
     THEN \* this.pins.get(id) is undefined: .remove() throws
          /\ out' = Out("deleteMemory", "threw", "no", NoToast)
          /\ UNCHANGED <<memories, pins, layers, storage, detailModal,
                         currentMemoryId, failures>>
     ELSE LET mems == Splice(memories, FindIndex(memories, currentMemoryId))
          IN  /\ layers' = layers \ {PinsGet(pins, currentMemoryId)}
              /\ pins' = PinsDelete(pins, currentMemoryId)
              /\ memories' = mems
              /\ storage' = SaveToStorage(mems, ok)
              /\ SetItem(ok)
              /\ detailModal' = FALSE
              /\ currentMemoryId' = NullId
              /\ out' = OutOn("deleteMemory", "ok", Wrote(ok), Toast("deleted", 0),
                            currentMemoryId)
  /\ UNCHANGED <<currentPin, addingMemory, editingMemory, memoryModal, reading,
                 download, now>>
  /\ UNCHANGED <<view, timers, editTarget>>

(* -------- filters -------- *)
Filter(m, from, to) == [mood |-> m, dateFrom |-> from, dateTo |-> to]
Filters ==
  { Filter(NoMood, EmptyStr, EmptyStr),
    Filter("happy", EmptyStr, EmptyStr),
    Filter(NoMood, Date2024, EmptyStr),
    Filter(NoMood, EmptyStr, Date2023),
    Filter("dreamy", Date2024, Date2024),
    Filter(NoMood, Date2025, Date2023) }

\* the three tests of applyFilters on one memory
Show(memory, f) ==
  /\ ~(f.mood # NoMood /\ memory.mood # f.mood)
  /\ ~(f.dateFrom # EmptyStr /\ StrLess(memory.date, f.dateFrom))
  /\ ~(f.dateTo # EmptyStr /\ StrLess(f.dateTo, memory.date))

\* the pins.forEach of applyFilters over the entries ps still to visit: each
\* marker is added to or removed from the map; find() throwing, or returning
\* undefined (memory.mood then throws), ends the loop
RECURSIVE FilterPins(_, _, _, _, _)
FilterPins(ps, mems, f, ls, count) ==
  IF ps = << >> THEN [layers |-> ls, count |-> count, threw |-> FALSE]
  ELSE IF (IF FindThrows(mems, Head(ps).id) THEN TRUE
           ELSE FindIndex(mems, Head(ps).id) = 0)
  THEN [layers |-> ls, count |-> count, threw |-> TRUE]
  ELSE IF Show(mems[FindIndex(mems, Head(ps).id)], f)
  THEN FilterPins(Tail(ps), mems, f, ls \cup {Head(ps).marker}, count + 1)
  ELSE FilterPins(Tail(ps), mems, f, ls \ {Head(ps).marker}, count)

\* an applyFilters that also drops the hidden markers from the cache
ApplyFiltersDroppingHidden(f) ==
  LET r == FilterPins(pins, memories, f, layers, 0)
  IN  /\ layers' = r.layers
      /\ pins' = SelectSeq(pins, LAMBDA e : e.marker \in r.layers)
      /\ out' = IF r.threw THEN Out("applyFilters", "threw", "no", NoToast)
                 ELSE Out("applyFilters", "ok", "no", Toast("showing", r.count))
      /\ UNCHANGED <<memories, storage, currentPin, addingMemory,
                     currentMemoryId, editingMemory, memoryModal, detailModal,
                     reading, download, now, failures>>
  /\ UNCHANGED <<view, timers, editTarget>>

\* applyFilters(), with the values of the three filter fields
ApplyFilters(f) ==
  LET r == FilterPins(pins, memories, f, layers, 0)
  IN  /\ layers' = r.layers
      /\ out' = IF r.threw THEN Out("applyFilters", "threw", "no", NoToast)
                 ELSE Out("applyFilters", "ok", "no", Toast("showing", r.count))
      /\ UNCHANGED <<memories, pins, storage, currentPin, addingMemory,
                     currentMemoryId, editingMemory, memoryModal, detailModal,
                     reading, download, now, failures>>
  /\ UNCHANGED <<view, timers, editTarget>>

\* clearFilters(): every cached marker goes back on the map
ClearFilters ==
  /\ layers' = layers \cup PinMarkers(pins)
  /\ out' = Out("clearFilters", "ok", "no", Toast("cleared", 0))
  /\ UNCHANGED <<memories, pins, storage, currentPin, addingMemory,
                 currentMemoryId, editingMemory, memoryModal, detailModal,
                 reading, download, now, failures>>
  /\ UNCHANGED <<view, timers, editTarget>>

(* -------- export and import -------- *)
\* exportMemories(): the downloaded file
ExportMemories ==
  /\ download' = Stringify(memories, 2)
  /\ out' = Out("exportMemories", "ok", "no", Toast("exported", 0))
  /\ UNCHANGED <<memories, pins, layers, storage, currentPin, addingMemory,
                 currentMemoryId, editingMemory, memoryModal, detailModal,
                 reading, now, failures>>
  /\ UNCHANGED <<view, timers, editTarget>>

\* records a file may hold
RecA == Item("memory", 1, <<"a">>, Date2023, <<"x">>, "happy", <<40, -74>>, ISO(1))
RecB == Item("memory", 2, <<"b">>, Date2024, <<"y">>, "dreamy", <<41, -73>>, ISO(2))
\* a second record with RecA's id
RecA2 == Item("memory", 1, <<"b">>, Date2024, <<"y">>, "dreamy", <<41, -73>>, ISO(2))
\* a record without a description field
RecNoDesc == Item("nodesc", 2, <<"b">>, Date2024, EmptyStr, "happy", <<41, -73>>, ISO(2))

\* the files the user may pick
Files ==
  { Garbage, ObjectText,
    Stringify(<<RecA, RecB>>, 2), Stringify(<<RecA, RecA2>>, 2),
    Stringify(<<NullItem>>, 2), Stringify(<<RecNoDesc>>, 2) }

\* markers on the map that no entry of pins holds
Orphans == layers \ PinMarkers(pins)

\* importMemories(file): starts a FileReader; reading counts the readers
\* whose load event is still to come.  An import can leave a marker on the
\* map that pins does not hold, and the next one would add another: to keep
\* the markers finitely many, no file is picked while such a marker is there
ImportMemories ==
  /\ reading < MaxReads
  /\ Orphans = {}
  /\ reading' = reading + 1
  /\ out' = Out("importMemories", "ok", "no", NoToast)
  /\ UNCHANGED <<memories, pins, layers, storage, currentPin, addingMemory,
                 currentMemoryId, editingMemory, memoryModal, detailModal,
                 download, now, failures>>
  /\ UNCHANGED <<view, timers, editTarget>>

\* an import that adds the file's records to the collection
ImportedAppended(text) == memories \o Parse(text).items
\* const imported = JSON.parse(e.target.result)
Imported(text) == Parse(text).items

\* a clearing that takes the markers off the map and keeps the cache
ClearPinsKeepingCache(ps, ls) == [pins |-> ps, layers |-> ls \ PinMarkers(ps)]
\* this.pins.forEach(pin => pin.remove()); this.pins.clear()
ClearPins(ps, ls) == [pins |-> << >>, layers |-> ls \ PinMarkers(ps)]

\* reader.onload of one of the readers; text is e.target.result, the
\* content of the file it read
ImportLoad(text, ok) ==
  /\ reading > 0
  /\ reading' = reading - 1
  /\ IF (IF ParseThrows(text) THEN TRUE ELSE ~IsArray(Parse(text)))
     THEN /\ out' = Out("importLoad", "failed", "no", Toast("importFailed", 0))
          /\ UNCHANGED <<memories, pins, layers, storage, failures>>
     ELSE LET imported == Imported(text)
              c == ClearPins(pins, layers)
              r == LoadMemories(imported, c.pins, c.layers)
          IN  /\ memories' = imported
              /\ storage' = SaveToStorage(imported, ok)
              /\ SetItem(ok)
              /\ pins' = r.pins
              /\ layers' = r.layers
              /\ out' = IF r.threw
                         THEN Out("importLoad", "failed", Wrote(ok),
                                  Toast("importFailed", 0))
                         ELSE Out("importLoad", "ok", Wrote(ok),
                                  Toast("imported", Len(imported)))
  /\ UNCHANGED <<currentPin, addingMemory, currentMemoryId, editingMemory,
                 memoryModal, detailModal, download, now>>
  /\ UNCHANGED <<view, timers, editTarget>>

(* -------- keyboard and page visibility -------- *)
\* the keydown handler on Escape, were addMemoryMode() called whether or not
\* adding mode is on
EscapeTogglingAdding ==
  /\ memoryModal' = FALSE
  /\ currentPin' = IF memoryModal THEN NullPin ELSE currentPin
  /\ editingMemory' = IF memoryModal THEN FALSE ELSE editingMemory
  /\ editTarget' = IF memoryModal THEN NullId ELSE editTarget
  /\ detailModal' = FALSE
  /\ currentMemoryId' = IF memoryModal \/ detailModal THEN NullId ELSE currentMemoryId
  /\ addingMemory' = ~addingMemory
  /\ out' = OutOn("escape", "ok", "no", NoToast, currentMemoryId)
  /\ UNCHANGED <<memories, pins, layers, storage, reading, download, now, failures>>
  /\ UNCHANGED <<view, timers>>

\* the keydown handler on Escape: closeModal() if the form modal is displayed,
\* closeDetailModal() if the detail modal is displayed, addMemoryMode() if
\* adding mode is on.  out.subject is the current id the key press found
Escape ==
  /\ memoryModal' = FALSE
  /\ currentPin' = IF memoryModal THEN NullPin ELSE currentPin
  /\ editingMemory' = IF memoryModal THEN FALSE ELSE editingMemory
  /\ editTarget' = IF memoryModal THEN NullId ELSE editTarget
  /\ detailModal' = FALSE
  /\ currentMemoryId' = IF memoryModal \/ detailModal THEN NullId ELSE currentMemoryId
  /\ addingMemory' = FALSE
  /\ out' = OutOn("escape", "ok", "no", NoToast, currentMemoryId)
  /\ UNCHANGED <<memories, pins, layers, storage, reading, download, now, failures>>
  /\ UNCHANGED <<view, timers>>

\* the visibilitychange handler when the page is hidden: saveToStorage()
VisibilityHidden(ok) ==
  /\ storage' = SaveToStorage(memories, ok)
  /\ SetItem(ok)
  /\ out' = Out("visibilitychange", "ok", Wrote(ok),
              IF ok THEN NoToast ELSE Toast("storageFailed", 0))
  /\ UNCHANGED <<memories, pins, layers, currentPin, addingMemory,
                 currentMemoryId, editingMemory, memoryModal, detailModal,
                 reading, download, now>>
  /\ UNCHANGED <<view, timers, editTarget>>

(* -------- randomMemory and its timer -------- *)
\* a view that stays where the map was
FocusHome(memory) == HomeView
\* this.map.setView([randomMemory.lat, randomMemory.lng], 15)
Focus(memory) == <<memory.lat, memory.lng, 15>>

\* randomMemory(); k is the element Math.floor(Math.random() * length)
\* selects, counted from 1, and 0 when the collection is empty.  A null
\* element throws at randomMemory.lat
RandomMemory(k) ==
  /\ IF Len(memories) = 0
     THEN /\ k = 0
          /\ out' = Out("randomMemory", "empty", "no", Toast("noMemories", 0))
          /\ UNCHANGED <<view, timers>>
     ELSE /\ k \in 1 .. Len(memories)
          /\ Len(timers) < MaxTimers
          /\ IF memories[k].kind = "null"
             THEN /\ out' = Out("randomMemory", "threw", "no", NoToast)
                  /\ UNCHANGED <<view, timers>>
             ELSE /\ view' = Focus(memories[k])
                  /\ timers' = Append(timers, memories[k].id)
                  /\ out' = OutOn("randomMemory", "ok", "no", Toast("jumped", 0),
                                memories[k].id)
  /\ UNCHANGED <<memories, pins, layers, storage, currentPin, addingMemory,
                 currentMemoryId, editingMemory, memoryModal, detailModal,
                 reading, download, now, failures, editTarget>>

\* the callback of the oldest pending timer:
\* this.pins.get(randomMemory.id).openPopup(), which throws when the Map has
\* no entry for the id
PopupTimer ==
  /\ timers # << >>
  /\ timers' = Tail(timers)
  /\ out' = OutOn("popupTimer",
                IF PinsHas(pins, Head(timers)) THEN "ok" ELSE "threw",
                "no", NoToast, Head(timers))
  /\ UNCHANGED <<memories, pins, layers, storage, currentPin, addingMemory,
                 currentMemoryId, editingMemory, memoryModal, detailModal,
                 reading, download, now, failures, view, editTarget>>

(* -------- the user's events -------- *)
\* A displayed modal is a backdrop over the whole page (a click on the modal
\* element itself closes it), so the controls of the page beneath it, the
\* map, the popups, the floating button, the filter panel and the file
\* picker, are operated only while no modal is displayed.
PageReachable == ~memoryModal /\ ~detailModal

ClickAddMemory == PageReachable /\ AddMemoryMode
ClickMap(latlng) == PageReachable /\ MapClick(latlng)
ClickOpenMemory(id) == PageReachable /\ ShowMemoryDetail(id)
ClickApplyFilters(f) == PageReachable /\ ApplyFilters(f)
ClickClearFilters == PageReachable /\ ClearFilters
ClickExport == PageReachable /\ ExportMemories
PickFile == PageReachable /\ ImportMemories
ClickRandom(k) == PageReachable /\ RandomMemory(k)
\* The "Open Memory" button of an open popup stays in the document beneath a
\* modal and takes the keyboard focus (Tab, Enter) whatever is displayed
KeyOpenMemory(id) == ShowMemoryDetail(id)
\* The floating "add memory" button takes the keyboard focus in the same way
KeyAddMemory == AddMemoryMode
\* the file picked is the one exportMemories downloaded
PickDownload == PageReachable /\ download.kind = "json" /\ ImportMemories

(* -------- the specifications -------- *)
\* the application with every handler but export
Next ==
  \/ ClickAddMemory
  \/ \E latlng \in LatLngs : ClickMap(latlng)
  \/ CloseModal
  \/ \E form \in Forms, ok \in BOOLEAN, t \in Times : SaveMemory(form, ok, t)
  \/ \E id \in Times : ClickOpenMemory(id)
  \/ CloseDetailModal
  \/ EditMemory
  \/ \E confirmed \in BOOLEAN, ok \in BOOLEAN : DeleteMemory(confirmed, ok)
  \/ \E f \in Filters : ClickApplyFilters(f)
  \/ ClickClearFilters
  \/ PickFile
  \/ \E text \in Files, ok \in BOOLEAN : ImportLoad(text, ok)
  \/ Escape
  \/ \E ok \in BOOLEAN : VisibilityHidden(ok)

Spec == Init /\ [][Next]_vars

\* create, delete, export, and import of the exported file
NextRoundTrip ==
  \/ ClickAddMemory
  \/ \E latlng \in LatLngs : ClickMap(latlng)
  \/ \E form \in Forms, ok \in BOOLEAN, t \in Times : SaveMemory(form, ok, t)
  \/ \E id \in Times : ClickOpenMemory(id)
  \/ \E confirmed \in BOOLEAN, ok \in BOOLEAN : DeleteMemory(confirmed, ok)
  \/ ClickExport
  \/ PickDownload
  \/ \E ok \in BOOLEAN : ImportLoad(download, ok)

SpecRoundTrip == Init /\ [][NextRoundTrip]_vars

\* randomMemory and its timer among create, edit, delete and import, the
\* storage writes succeeding
NextRandom ==
  \/ ClickAddMemory
  \/ \E latlng \in LatLngs : ClickMap(latlng)
  \/ \E form \in Forms, t \in Times : SaveMemory(form, TRUE, t)
  \/ \E id \in Times : ClickOpenMemory(id)
  \/ EditMemory
  \/ CloseModal
  \/ \E confirmed \in BOOLEAN : DeleteMemory(confirmed, TRUE)
  \/ PickFile
  \/ \E text \in Files : ImportLoad(text, TRUE)
  \/ \E k \in 0 .. MaxMem : ClickRandom(k)
  \/ PopupTimer

SpecRandom == Init /\ [][NextRandom]_vars

\* create, edit, delete and filter, the popups' buttons being operated from
\* the keyboard as well, the storage writes succeeding
NextKeyboard ==
  \/ ClickAddMemory
  \/ \E latlng \in LatLngs : ClickMap(latlng)
  \/ \E form \in Forms, t \in Times : SaveMemory(form, TRUE, t)
  \/ \E id \in Times : KeyOpenMemory(id)
  \/ CloseDetailModal
  \/ CloseModal
  \/ EditMemory
  \/ \E confirmed \in BOOLEAN : DeleteMemory(confirmed, TRUE)
  \/ \E f \in Filters : ClickApplyFilters(f)
  \/ ClickClearFilters

SpecKeyboard == Init /\ [][NextKeyboard]_vars

\* create, delete and import, and the page reloaded at any moment
NextReload ==
  \/ ClickAddMemory
  \/ \E latlng \in LatLngs : ClickMap(latlng)
  \/ \E form \in Forms, ok \in BOOLEAN, t \in Times : SaveMemory(form, ok, t)
  \/ \E id \in Times : ClickOpenMemory(id)
  \/ \E confirmed \in BOOLEAN, ok \in BOOLEAN : DeleteMemory(confirmed, ok)
  \/ PickFile
  \/ \E text \in Files, ok \in BOOLEAN : ImportLoad(text, ok)
  \/ Reload

SpecReload == Init /\ [][NextReload]_vars

\* create, edit, delete and import, the popups' buttons being operated from
\* the keyboard as well, the storage writes succeeding
NextKeyboardImport ==
  \/ ClickAddMemory
  \/ \E latlng \in LatLngs : ClickMap(latlng)
  \/ \E form \in Forms, t \in Times : SaveMemory(form, TRUE, t)
  \/ \E id \in Times : KeyOpenMemory(id)
  \/ CloseDetailModal
  \/ CloseModal
  \/ EditMemory
  \/ \E confirmed \in BOOLEAN : DeleteMemory(confirmed, TRUE)
  \/ PickFile
  \/ \E text \in Files : ImportLoad(text, TRUE)

SpecKeyboardImport == Init /\ [][NextKeyboardImport]_vars

\* create, edit, delete and import with the buttons operated from the keyboard
\* as well, and the Escape key pressed at any moment
NextEscape ==
  \/ ClickAddMemory
  \/ KeyAddMemory
  \/ \E latlng \in LatLngs : ClickMap(latlng)
  \/ \E form \in Forms, t \in Times : SaveMemory(form, TRUE, t)
  \/ \E id \in Times : KeyOpenMemory(id)
  \/ CloseDetailModal
  \/ CloseModal
  \/ EditMemory
  \/ \E confirmed \in BOOLEAN : DeleteMemory(confirmed, TRUE)
  \/ PickFile
  \/ \E text \in Files : ImportLoad(text, TRUE)
  \/ Escape

SpecEscape == Init /\ [][NextEscape]_vars

(* ======================= the claims ======================= *)

\* C1: from the detail view of an existing memory M, editMemory and then a
\* submit of a form with non-blank title, date and description leaves the
\* collection with the same size and with a record that has M's id and M's
\* createdAt and the submitted title, date, description and mood.
C1_EditSavesTheSubmittedValues ==
  [][\A form \in Forms, ok \in BOOLEAN, t \in Times :
       (/\ out.op = "editMemory" /\ out.result = "ok"
        /\ ~Invalid(form)
        /\ SaveMemory(form, ok, t))
       => LET M == memories[FindIndex(memories, out.subject)]
          IN  /\ Len(memories') = Len(memories)
              /\ \E i \in 1 .. Len(memories') :
                   /\ memories'[i].kind # "null"
                   /\ memories'[i].id = M.id
                   /\ memories'[i].createdAt = M.createdAt
                   /\ memories'[i].title = Trim(form.title)
                   /\ memories'[i].date = form.date
                   /\ memories'[i].description = Trim(form.description)
                   /\ memories'[i].mood = FormMood(form)]_vars

\* C2: whenever importMemories ends by reporting a failure, the collection,
\* the persisted storage value and the marker cache are what they were before.
C2_FailedImportChangesNothing ==
  [][\A text \in Files, ok \in BOOLEAN :
       (ImportLoad(text, ok) /\ out'.toast.msg = "importFailed")
       => (memories' = memories /\ storage' = storage /\ pins' = pins)]_vars

\* a string of white space only, the empty string included
IsBlank(str) == \A i \in 1 .. Len(str) : str[i] = " "
\* a string without its leading and trailing white space
Stripped(str) ==
  IF IsBlank(str) THEN << >>
  ELSE SubSeq(str,
              Min({ i \in 1 .. Len(str) : str[i] # " " }),
              CHOOSE j \in 1 .. Len(str) :
                str[j] # " " /\ \A k \in j + 1 .. Len(str) : str[k] = " ")
\* the form has a title, a date and a description
Filled(form) ==
  ~IsBlank(form.title) /\ form.date # EmptyStr /\ ~IsBlank(form.description)

\* what C3 says of a submit of the creation form, with the title and the
\* description the record is to carry
CreateAppends(form, title, description) ==
  LET n == Len(memories)
      m == memories'[n + 1]
  IN  /\ Len(memories') = n + 1
      /\ SubSeq(memories', 1, n) = memories
      /\ m.kind = "memory"
      /\ m.title = title
      /\ m.date = form.date
      /\ m.description = description
      /\ m.mood = (IF form.mood = NoMood THEN DefaultMood ELSE form.mood)
      /\ <<m.lat, m.lng>> = currentPin
      /\ m.id = now' /\ now' > now
      /\ m.createdAt = ISO(now')
      /\ PinsHas(pins', m.id)
      /\ PinsGet(pins', m.id) \in layers'
      /\ PinsGet(pins', m.id) \notin layers \cup PinMarkers(pins)

\* C3 as stated: a submit of the creation form with non-blank title, date and
\* description appends one record that has exactly the submitted title, date,
\* description and mood, the location of the pending map click, a freshly
\* generated id and createdAt, and whose marker is added to the marker cache.
C3_CreateAppendsExactInput ==
  [][\A form \in Forms, ok \in BOOLEAN, t \in Times :
       (~editingMemory /\ Filled(form) /\ SaveMemory(form, ok, t))
       => CreateAppends(form, form.title, form.description)]_vars

\* C3 as amended: the same, the record's title and description being the
\* submitted ones without their leading and trailing white space.
C3_CreateAppendsTrimmedInput ==
  [][\A form \in Forms, ok \in BOOLEAN, t \in Times :
       (~editingMemory /\ Filled(form) /\ SaveMemory(form, ok, t))
       => CreateAppends(form, Stripped(form.title), Stripped(form.description))]_vars

\* a creation has just appended a second record, from a form whose title and
\* description carried white space around them
C3_Witness ==
  /\ out.op = "saveMemory" /\ out.result = "ok"
  /\ Len(memories) = 2
  /\ memories[2].id = out.subject
  /\ memories[2].title = <<"b">>
  /\ memories[2].description = <<"y">>
  /\ memories[2].mood = DefaultMood

\* C4: a submit with title, date or description blank changes nothing: the
\* collection, the marker cache, the map and the persisted value are
\* unchanged, no storage write is performed, and the user is notified.
C4_BlankSubmitChangesNothing ==
  [][\A form \in Forms, ok \in BOOLEAN, t \in Times :
       (~Filled(form) /\ SaveMemory(form, ok, t))
       => /\ UNCHANGED <<memories, pins, layers, storage, failures>>
          /\ out'.wrote = "no"
          /\ out'.result = "invalid"]_vars

\* a form with a blank field has just been submitted over a stored memory
C4_Witness ==
  /\ out.op = "saveMemory" /\ out.result = "invalid"
  /\ memories # << >>
  /\ memoryModal

\* the elements of mems that are records, by position
Records(mems) == { i \in 1 .. Len(mems) : mems[i].kind # "null" }
\* the position of the record the detail view shows
Shown == Min({ i \in Records(memories) : memories[i].id = currentMemoryId })

\* C5: a confirmed deleteMemory on the memory shown in the detail view
\* removes exactly that record from the collection and the pin whose key is
\* its id, takes the marker off the map, writes the result to storage, and
\* leaves every other record and pin as it was.
C5_ConfirmedDeleteRemovesTheShown ==
  [][\A ok \in BOOLEAN :
       (currentMemoryId \in Ids(memories) /\ DeleteMemory(TRUE, ok))
       => /\ Len(memories') = Len(memories) - 1
          /\ \A j \in 1 .. Len(memories') :
               memories'[j] = memories[IF j < Shown THEN j ELSE j + 1]
          /\ PinKeys(pins') = PinKeys(pins) \ {currentMemoryId}
          /\ \A k \in PinKeys(pins') : PinsGet(pins', k) = PinsGet(pins, k)
          /\ out'.wrote # "no"
          /\ (ok => storage' = Stringify(memories', 0))]_vars

\* C6: deleteMemory changes nothing and raises no exception when the
\* confirmation is declined or when no record has the current id.
C6_DeclinedOrUnknownDeleteIsANoOp ==
  [][\A confirmed \in BOOLEAN, ok \in BOOLEAN :
       (/\ ~confirmed \/ currentMemoryId \notin Ids(memories)
        /\ DeleteMemory(confirmed, ok))
       => /\ UNCHANGED <<memories, pins, layers, storage>>
          /\ out'.result # "threw"]_vars

\* a date as a number of days: later dates are larger
DateValue(d) == d[1] * 1000 + d[2] * 100 + d[3] * 10 + d[4]
\* the memory satisfies every filter that is set
Satisfies(memory, f) ==
  /\ f.mood = NoMood \/ memory.mood = f.mood
  /\ f.dateFrom = EmptyStr \/ DateValue(memory.date) >= DateValue(f.dateFrom)
  /\ f.dateTo = EmptyStr \/ DateValue(memory.date) <= DateValue(f.dateTo)
\* the marker cached for the memory's id is on the map
MarkerVisible(memory, ps, ls) ==
  PinsHas(ps, memory.id) /\ PinsGet(ps, memory.id) \in ls

\* C7: after applyFilters the memories whose marker is visible are exactly
\* the memories that satisfy every filter that is set (mood equal, date not
\* before dateFrom, date not after dateTo), and the count shown to the user
\* is the size of that set.
C7_VisibleAreTheMatching ==
  [][\A f \in Filters :
       ApplyFilters(f)
       => LET visible == { i \in Records(memories) :
                             MarkerVisible(memories[i], pins', layers') }
              matching == { i \in Records(memories) : Satisfies(memories[i], f) }
          IN  /\ visible = matching
              /\ out'.toast = Toast("showing", Cardinality(matching))]_vars

\* C8: applyFilters and clearFilters change marker visibility only: the
\* collection, the key set of the marker cache and the persisted value are
\* the same after as before.
C8_FiltersChangeOnlyVisibility ==
  [][((\E f \in Filters : ApplyFilters(f)) \/ ClearFilters)
       => /\ memories' = memories
          /\ PinKeys(pins') = PinKeys(pins)
          /\ storage' = storage]_vars

\* a filter has just hidden the marker of one of two stored memories
C8_Witness ==
  /\ out.op = "applyFilters" /\ out.result = "ok"
  /\ out.toast = Toast("showing", 1)
  /\ Len(memories) = 2
  /\ Cardinality(PinKeys(pins)) = 2
  /\ Cardinality(PinMarkers(pins) \cap layers) = 1

\* the exported file holds the current collection
Exported == download = Stringify(memories, 2)

\* C9 as stated: importing the file export just produced, the collection
\* having been built by creations and deletions, leaves the collection with
\* the same records in the same order and the persisted value the same.
C9_RoundTripKeepsCollectionAndStorage ==
  [][\A ok \in BOOLEAN :
       (Exported /\ ImportLoad(download, ok))
       => (memories' = memories /\ storage' = storage)]_vars

\* C9 as amended: the collection is the same; the persisted value is the same
\* unless it was out of date after a failed write, and then the import's
\* write, if it succeeds, brings it up to date.
C9_RoundTripKeepsCollection ==
  [][\A ok \in BOOLEAN :
       (Exported /\ ImportLoad(download, ok))
       => /\ memories' = memories
          /\ out'.result = "ok"
          /\ \/ storage' = storage
             \/ /\ storage # Stringify(memories, 0)
                /\ ok
                /\ storage' = Stringify(memories, 0)]_vars

\* the export of a collection of two created memories has just been imported
C9_Witness ==
  /\ out.op = "importLoad" /\ out.result = "ok"
  /\ Len(memories) = 2
  /\ Exported
  /\ storage = Stringify(memories, 0)

\* what C10 says of the collection and the marker cache after the import of
\* the array L
ImportReplaces(L) ==
  /\ memories' = L
  /\ PinKeys(pins') = Ids(L)
  /\ PinMarkers(pins') \subseteq layers'

\* C10 as stated: after an import that succeeds the collection is the
\* imported array L, the marker cache holds markers for exactly the ids of L,
\* and the persisted value is the serialization of L, whatever ran between
\* the start of the import and its completion.
C10_ImportReplacesAll ==
  [][\A text \in Files, ok \in BOOLEAN :
       (ImportLoad(text, ok) /\ out'.toast.msg = "imported")
       => /\ ImportReplaces(Parse(text).items)
          /\ storage' = Stringify(Parse(text).items, 0)]_vars

\* C10 as amended: the same, the persisted value being the serialization of
\* L when the storage write succeeds and the value it had when the write
\* fails.
C10_ImportReplacesAllButFailedWrite ==
  [][\A text \in Files, ok \in BOOLEAN :
       (ImportLoad(text, ok) /\ out'.toast.msg = "imported")
       => /\ ImportReplaces(Parse(text).items)
          /\ storage' = IF ok THEN Stringify(Parse(text).items, 0) ELSE storage]_vars

\* an import that started before a memory was created has just replaced it
\* by the two records of the file
C10_Witness ==
  /\ out.op = "importLoad" /\ out.result = "ok" /\ out.wrote = "ok"
  /\ memories = <<RecA, RecB>>
  /\ PinKeys(pins) = {1, 2}
  /\ now > 0

\* C11: randomMemory on an empty collection reports the no-memories
\* condition and changes neither the map view nor any other state; on a
\* non-empty collection the memory it focuses the map on is a member of the
\* current collection (a null element selected makes it throw before any
\* change of the view).
C11_RandomPicksAMember ==
  [][\A k \in 0 .. MaxMem :
       RandomMemory(k)
       => IF memories = << >>
          THEN /\ out'.toast = Toast("noMemories", 0)
               /\ UNCHANGED <<memories, pins, layers, storage, currentPin,
                              addingMemory, currentMemoryId, editingMemory,
                              memoryModal, detailModal, reading, download,
                              failures, view, timers>>
          ELSE \/ /\ out'.result = "threw"
                  /\ view' = view
               \/ /\ out'.toast.msg = "jumped"
                  /\ \E i \in Records(memories) :
                       /\ memories[i].id = out'.subject
                       /\ view' = <<memories[i].lat, memories[i].lng, 15>>]_vars

\* randomMemory has just moved the map to the second of two memories
C11_Witness ==
  /\ out.op = "randomMemory" /\ out.result = "ok"
  /\ Len(memories) = 2
  /\ memories[2].kind # "null"
  /\ out.subject = memories[2].id
  /\ view = <<memories[2].lat, memories[2].lng, 15>>
  /\ view # <<memories[1].lat, memories[1].lng, 15>>

\* C12: in every reachable state no two records of the collection have the
\* same id.
C12_IdsAreUnique ==
  \A i, j \in Records(memories) :
    i # j => memories[i].id # memories[j].id

\* C13: over create, edit, delete and filter operations the createdAt stored
\* under an id is the same in every state from the record's creation until
\* its deletion: no step changes the createdAt of a record it keeps.
C13_CreatedAtIsWriteOnce ==
  [][\A i \in Records(memories), j \in Records(memories') :
       memories'[j].id = memories[i].id
       => memories'[j].createdAt = memories[i].createdAt]_vars

\* an edit of the older of two memories has just been saved
C13_Witness ==
  /\ out.op = "saveMemory" /\ out.result = "ok"
  /\ Len(memories) = 2
  /\ out.subject < now
  /\ \E i \in Records(memories) :
       /\ memories[i].id = out.subject
       /\ memories[i].createdAt = ISO(out.subject)

\* the persisted value is the serialization of the collection, or the key
\* was never written and the collection is empty
StorageUpToDate ==
  \/ storage = Stringify(memories, 0)
  \/ storage = Absent /\ memories = << >>

\* C14: as long as no storage write has failed, the value under the storage
\* key is the serialization of the whole in-memory collection in every state
\* between operations.
C14_StorageFollowsCollection == failures = 0 => StorageUpToDate

\* C15: after create, delete and import operations none of whose storage
\* writes failed, a new application instance constructed from the same
\* storage has a collection identical to the one before the reload and one
\* marker-cache entry for each of its ids.
C15_ReloadRestoresTheCollection ==
  [][(failures = 0 /\ Reload)
       => /\ memories' = memories
          /\ PinKeys(pins') = Ids(memories')
          /\ Len(pins') = Cardinality(Ids(memories'))]_vars

\* C16: in every state between UI events, after startup load, create, edit,
\* delete, filter and import operations (imports that end in a reported
\* failure included), the ids keyed in the marker cache are the ids of the
\* records of the collection.
C16_PinsIndexTheCollection == PinKeys(pins) = Ids(memories)

\* C17: when the storage write fails during a create, a delete or an import,
\* the notification displayed once the operation has completed is the
\* storage-failure notification.
C17_FailedWriteIsWhatTheUserSees ==
  (/\ out.op \in {"saveMemory", "deleteMemory", "importLoad"}
   /\ out.wrote = "failed")
  => out.toast.msg = "storageFailed"

\* C18: when the storage write fails during a create, the new record is
\* still appended to the in-memory collection and its marker still added to
\* the marker cache, no exception escapes, and the session goes on with the
\* updated collection (the form is closed, the persisted value is the old one).
C18_FailedWriteKeepsTheCreation ==
  [][\A form \in Forms, t \in Times :
       (~editingMemory /\ Filled(form) /\ SaveMemory(form, FALSE, t))
       => /\ CreateAppends(form, Stripped(form.title), Stripped(form.description))
          /\ out'.result = "ok"
          /\ out'.wrote = "failed"
          /\ ~memoryModal'
          /\ storage' = storage]_vars

\* a creation whose storage write failed has just added the only memory
C18_Witness ==
  /\ out.op = "saveMemory" /\ out.result = "ok" /\ out.wrote = "failed"
  /\ Len(memories) = 1
  /\ PinKeys(pins) = {memories[1].id}
  /\ storage = Absent

\* C19: whenever a confirmed deleteMemory, or an editMemory, runs while the
\* current id is not in the collection, a user-visible notification is
\* issued.  It is stated of the collections without a null element, on
\* which neither handler throws.
C19_NotFoundIsReported ==
  [][(/\ currentMemoryId \notin Ids(memories)
      /\ Nulls(memories) = {}
      /\ (\E ok \in BOOLEAN : DeleteMemory(TRUE, ok)) \/ EditMemory)
       => out'.toast # NoToast]_vars

\* C20: when the popup callback that randomMemory scheduled runs, whatever
\* delete, import or edit ran since, the marker cache has an entry for the
\* id of the memory selected.  It is stated of the firings in states whose
\* marker cache indexes the collection, those no failed import led to.
C20_PopupTimerFindsItsMarker ==
  [][(PopupTimer /\ PinKeys(pins) = Ids(memories))
       => PinsHas(pins, Head(timers))]_vars

\* C21: a submit of the form that editMemory opened on memory A, whatever
\* detail views were opened, adding mode was toggled or map clicks happened
\* while the form was open, leaves every record of another memory B where it
\* was and with every field as it was.
C21_EditTouchesOnlyItsTarget ==
  [][\A form \in Forms, ok \in BOOLEAN, t \in Times :
       (/\ editingMemory
        /\ editTarget # NullId
        /\ Filled(form)
        /\ SaveMemory(form, ok, t))
       => \A i \in Records(memories) :
            memories[i].id # editTarget
              => /\ i <= Len(memories')
                 /\ memories'[i] = memories[i]]_vars

\* C22: in every reachable state every marker on the map is the marker the
\* marker cache holds for some id of the collection, so that no memory has
\* two markers on the map and delete, edit and import can take each marker
\* off.  It is stated of the collections without a null element and whose
\* records all have a description, those no failed import led to.
C22_NoOrphanedMarkers ==
  (/\ Nulls(memories) = {}
   /\ \A i \in Records(memories) : memories[i].kind = "memory")
    => \A marker \in layers :
         \E id \in Ids(memories) :
           PinsHas(pins, id) /\ PinsGet(pins, id) = marker

\* C23: an Escape key press, in any reachable state, leaves the form modal
\* and the detail modal closed, adding mode off, editingMemory false,
\* currentPin and currentMemoryId null, and the collection, the marker cache
\* and the stored value as they were.
C23_EscapeCancelsWithoutTouchingData ==
  [][Escape
       => /\ ~memoryModal'
          /\ ~detailModal'
          /\ ~addingMemory'
          /\ ~editingMemory'
          /\ currentPin' = NullPin
          /\ currentMemoryId' = NullId
          /\ memories' = memories
          /\ pins' = pins
          /\ storage' = storage]_vars

\* Escape was pressed over a detail view of a stored collection, and nothing
\* is pending after it
C23_Witness ==
  /\ out.op = "escape"
  /\ out.subject \in Ids(memories)
  /\ storage # Absent
  /\ ~memoryModal /\ ~detailModal /\ ~addingMemory /\ ~editingMemory
  /\ currentPin = NullPin /\ currentMemoryId = NullId

====
